---- MODULE Spec2Model ----
(***************************************************************************)
(* Lead-time analytics of repo-stats: the SQLite store kept by             *)
(* DatabaseManager (deployments, pull_requests, lead_time_metrics) and     *)
(* the LeadTimeCalculator that matches a merged pull request to a          *)
(* deployment and decomposes its life into timed phases.                   *)
(*                                                                         *)
(* Timestamps are stored as the TEXT the hosting platform returned         *)
(* (ISO-8601).  SQL compares and orders them as text; JavaScript parses    *)
(* them into instants.  Both views are modelled: a timestamp is a pair of  *)
(* a wall-clock reading (whole hours) and a zone designator.               *)
(***************************************************************************)
EXTENDS Integers, Sequences, FiniteSets, TLC

VARIABLES
    deployments,        \* rows of table deployments
    pull_requests,      \* rows of table pull_requests
    lead_time_metrics,  \* rows of table lead_time_metrics
    sqlite_sequence,    \* AUTOINCREMENT high-water mark of each table
    pc,                 \* "idle", or "pass" inside calculateLeadTime's loop
    pass,               \* the running or latest calculateLeadTime: its list
                        \* of rows still to process and its result so far
    call,               \* the latest calculatePRLeadTime call (or call of a
                        \* reporting operation) and its result
                        \* (pass and call are forgotten when the store is
                        \* written from outside a pass)
    batch               \* the running or latest batch of RepoStatsCounter
                        \* over the configured repositories

vars == <<deployments, pull_requests, lead_time_metrics, sqlite_sequence,
          pc, pass, call, batch>>

----------------------------------------------------------------------------
(* Bounds of the model *)

MaxWall == 1        \* wall-clock readings are 0..MaxWall (hours)
MaxDeps == 2        \* rows of the deployment history handed to the calculator
MaxPrInserts == 2   \* calls of insertPullRequest in one behaviour
MaxDepInserts == 1  \* calls of insertDeployment in one behaviour
MaxMetricRows == 2  \* rows of lead_time_metrics a pass may grow the table to
MaxBatches == 2     \* batches of RepoStatsCounter in one behaviour
MaxRowsBeforePass == 2  \* rows of lead_time_metrics a repeated pass may find
MaxStatRows == 3    \* rows of the lead_time_metrics table handed to the
                    \* aggregation

----------------------------------------------------------------------------
(* Values *)

\* SQL NULL / JavaScript null for timestamps, rows and metrics.
NULL == [null |-> TRUE]

\* SQL NULL for a TEXT commit hash.
NULL_SHA == "null"

\* JavaScript null for an INTEGER row id (AUTOINCREMENT ids start at 1, and
\* "deployment?.id || null" maps a falsy id to null).
NULL_ID == 0

Repos == {"A", "B"}

\* Zone designators that end an ISO-8601 string: UTC, and two hours behind.
Zones == {"Z", "-02:00"}

Walls == 0..MaxWall

\* Timestamp texts as the platforms deliver them.
Stamps == [wall : Walls, zone : Zones]

\* Timestamp texts in UTC notation only.
UtcStamps == [wall : Walls, zone : {"Z"}]

Utc(h) == [wall |-> h, zone |-> "Z"]

HoursPerDay == 24

----------------------------------------------------------------------------
(* Text and time *)

MsPerHour == 1000 * 60 * 60

\* Hours to add to the wall-clock reading to obtain UTC.
ZoneHours(zone) == IF zone = "Z" THEN 0 ELSE 2

\* new Date(text).getTime(): the instant, in milliseconds; new Date(null) is
\* the epoch.
DateGetTime(text) ==
    IF text = NULL THEN 0 ELSE (text.wall + ZoneHours(text.zone)) * MsPerHour

\* Date.prototype.toISOString(): the instant rendered in UTC notation.
toISOString(ms) == [wall |-> ms \div MsPerHour, zone |-> "Z"]

\* Byte order of the zone designators ('-' is 0x2D, 'Z' is 0x5A).
ZoneRank(zone) == IF zone = "Z" THEN 1 ELSE 0

\* SQLite's comparison of two TEXT values (BINARY collation): the strings
\* have the fixed-width date and time first, the zone designator last.
TextLE(a, b) ==
    \/ a.wall < b.wall
    \/ a.wall = b.wall /\ ZoneRank(a.zone) <= ZoneRank(b.zone)

\* SQL "a >= b": never true when an operand is NULL.
SqlGE(a, b) == a # NULL /\ b # NULL /\ TextLE(b, a)

\* Equality that takes two absent hashes as equal (SQL "a IS b").
SqlEqSha_nullEqual(a, b) == a = b

\* SQL "a = b" on commit hashes: never true when an operand is NULL.
SqlEqSha(a, b) == a # NULL_SHA /\ b # NULL_SHA /\ a = b

\* calculateHoursDifference with its operands taken the other way round.
calculateHoursDifference_swapped(startDate, endDate) ==
    (startDate - endDate) \div MsPerHour

\* calculateHoursDifference(startDate, endDate), on instants in ms.
calculateHoursDifference(startDate, endDate) ==
    (endDate - startDate) \div MsPerHour

\* Math.max(0, x) left out.
Max0_unclamped(x) == x

\* Math.max(0, x)
Max0(x) == IF x > 0 THEN x ELSE 0

----------------------------------------------------------------------------
(* LeadTimeCalculator: the deployment matcher *)

\* The rows a "SELECT ... ORDER BY deployment_date ASC LIMIT 1" may return:
\* a row of least deployment_date text; SQL leaves the choice among equal
\* keys open.
FirstByDate(rows) ==
    {d \in rows : \A e \in rows : TextLE(d.deployment_date, e.deployment_date)}

\* The first query without "repository_id = ?".
ExactRows_anyRepository(repositoryId, pr) ==
    {d \in deployments :
        /\ SqlGE(d.deployment_date, pr.merged_at)
        /\ \/ SqlEqSha(d.commit_sha, pr.head_sha)
           \/ SqlEqSha(d.commit_sha, pr.merge_sha)}

\* First query of findDeploymentForPR: same repository, not before the
\* merge, commit equal to the head or the merge commit.
ExactRows(repositoryId, pr) ==
    {d \in deployments :
        /\ d.repository_id = repositoryId
        /\ SqlGE(d.deployment_date, pr.merged_at)
        /\ \/ SqlEqSha(d.commit_sha, pr.head_sha)
           \/ SqlEqSha(d.commit_sha, pr.merge_sha)}

\* Fallback query: same repository, not before the merge.
FallbackRows(repositoryId, pr) ==
    {d \in deployments :
        /\ d.repository_id = repositoryId
        /\ SqlGE(d.deployment_date, pr.merged_at)}

\* findDeploymentForPR(repositoryId, pr): the values the promise may resolve
\* to (a row, or NULL).
findDeploymentForPR(repositoryId, pr) ==
    IF ExactRows(repositoryId, pr) # {}
    THEN FirstByDate(ExactRows(repositoryId, pr))
    ELSE IF FallbackRows(repositoryId, pr) # {}
         THEN FirstByDate(FallbackRows(repositoryId, pr))
         ELSE {NULL}

----------------------------------------------------------------------------
(* LeadTimeCalculator: the lead time computer *)

\* The early return testing merged_at only.
MissingTimestamps_mergedOnly(pr) == pr.merged_at = NULL

\* The early return of calculatePRLeadTime.
MissingTimestamps(pr) == pr.first_commit_at = NULL \/ pr.merged_at = NULL

\* deployedTime after the if/else on the matched deployment: the
\* deployment's date, or the merge time when there is no deployment.
deployedTime(pr, deployment) ==
    IF deployment # NULL
    THEN DateGetTime(deployment.deployment_date)
    ELSE DateGetTime(pr.merged_at)

\* mergeToDeployHours after the if/else.
mergeToDeployHours(pr, deployment) ==
    IF deployment # NULL
    THEN calculateHoursDifference(DateGetTime(pr.merged_at),
                                  DateGetTime(deployment.deployment_date))
    ELSE 0

\* totalLeadTimeHours left at zero when no deployment is found.
totalLeadTimeHours_unassigned(pr, deployment) ==
    IF deployment # NULL
    THEN calculateHoursDifference(DateGetTime(pr.first_commit_at),
                                  DateGetTime(deployment.deployment_date))
    ELSE 0

\* totalLeadTimeHours after the if/else.
totalLeadTimeHours(pr, deployment) ==
    IF deployment # NULL
    THEN calculateHoursDifference(DateGetTime(pr.first_commit_at),
                                  DateGetTime(deployment.deployment_date))
    ELSE calculateHoursDifference(DateGetTime(pr.first_commit_at),
                                  DateGetTime(pr.merged_at))

\* calculatePRLeadTime(repositoryId, pr) past its early return, once
\* findDeploymentForPR has resolved to "deployment".
calculatePRLeadTime(repositoryId, pr, deployment) ==
    LET firstCommitTime == DateGetTime(pr.first_commit_at)
        mergedTime == DateGetTime(pr.merged_at)
        commitToMergeHours ==
            calculateHoursDifference(firstCommitTime, mergedTime)
        prCreatedTime == DateGetTime(pr.created_at_pr)
        codingTimeHours ==
            calculateHoursDifference(firstCommitTime, prCreatedTime)
        reviewTimeHours ==
            calculateHoursDifference(prCreatedTime, mergedTime)
    IN  [repository_id |-> repositoryId,
         pr_id |-> pr.id,
         deployment_id |-> IF deployment # NULL THEN deployment.id ELSE NULL_ID,
         coding_time_hours |-> Max0(codingTimeHours),
         review_time_hours |-> Max0(reviewTimeHours),
         deployment_time_hours |-> mergeToDeployHours(pr, deployment),
         total_lead_time_hours |-> totalLeadTimeHours(pr, deployment),
         commit_to_merge_hours |-> commitToMergeHours,
         merge_to_deploy_hours |-> mergeToDeployHours(pr, deployment),
         first_commit_at |-> pr.first_commit_at,
         merged_at |-> pr.merged_at,
         deployed_at |-> toISOString(deployedTime(pr, deployment))]

\* The ways one call calculatePRLeadTime(repositoryId, pr) can end: it
\* returns null or a metric, or the matcher's query fails and it throws.
CallOutcomes(repositoryId, pr) ==
    IF MissingTimestamps(pr)
    THEN {[repositoryId |-> repositoryId, pr |-> pr, outcome |-> "returned",
           deployment |-> NULL, metric |-> NULL]}
    ELSE {[repositoryId |-> repositoryId, pr |-> pr, outcome |-> "returned",
           deployment |-> d,
           metric |-> calculatePRLeadTime(repositoryId, pr, d)] :
              d \in findDeploymentForPR(repositoryId, pr)}
         \cup
         {[repositoryId |-> repositoryId, pr |-> pr, outcome |-> "threw",
           deployment |-> NULL, metric |-> NULL]}

----------------------------------------------------------------------------
(* The calculator applied to a deployment history *)

\* Commit hashes of deployments; "c2" matches no change without merge commit.
CommitShas == {NULL_SHA, "c1", "c2"}

\* Deployment events of the history (the columns the calculator reads).
\* Deployments of the change's repository, and deployments of another
\* repository that carry the change's head commit.
DeploymentInputs ==
    [repository_id : {"A"}, deployment_date : Stamps, commit_sha : CommitShas]
        \cup [repository_id : {"B"}, deployment_date : Stamps,
              commit_sha : {"c1"}]

DeploymentKeys == [n \in 1..(MaxDeps + 1) |-> <<"release", n>>]

\* A deployments table holding the events of f, one row each.
TableOf(f) ==
    {[id |-> i,
      repository_id |-> f[i].repository_id,
      deployment_id |-> DeploymentKeys[i],
      deployment_date |-> f[i].deployment_date,
      commit_sha |-> f[i].commit_sha] : i \in DOMAIN f}

\* Pull requests handed to calculatePRLeadTime.  first_commit_at and
\* created_at_pr are read through Date only, so their notation is kept UTC.
CalcPullRequests ==
    [id : {1}, repository_id : {"A"}, pr_number : {1},
     created_at_pr : UtcStamps,
     merged_at : Stamps \cup {NULL},
     first_commit_at : UtcStamps \cup {NULL},
     head_sha : {"c1", NULL_SHA},
     merge_sha : {NULL_SHA, "c2"},
     is_merged : {1}]

\* No call of calculateLeadTime yet.  A call's outcome is "running" inside
\* its loop, then "resolved" (it returned leadTimeMetrics) or "rejected".
NoPass == [repositoryId |-> "", days |-> 0, pending |-> <<>>,
           leadTimeMetrics |-> <<>>, outcome |-> "none"]

\* No batch yet.  repos lists the repositories whose turn is still to come,
\* events what was fetched for the repository in turn and is still to be
\* stored; the outcome is as for a pass.
\* failed holds the repositories whose turn ended in a failure; n counts
\* the batches.  specificRepo is the repository filter the batch was called
\* with, shown the statistics rows it printed.
NoBatch == [op |-> "none", days |-> 0, specificRepo |-> "", repos |-> <<>>,
            events |-> <<>>, failed |-> {}, outcome |-> "none", n |-> 0,
            shown |-> <<>>]

\* A number for each event, to list a history's events in one fixed order
\* (row ids are arbitrary: renumbering a table changes no result but the id).
InputCode(d) ==
    LET repo == IF d.repository_id = "A" THEN 0 ELSE 1
        sha == CASE d.commit_sha = NULL_SHA -> 0
                 [] d.commit_sha = "c1" -> 1
                 [] OTHER -> 2
    IN  ((repo * 4 + sha) * 2 + ZoneRank(d.deployment_date.zone))
            * (MaxWall + 1) + d.deployment_date.wall

InitCalc ==
    /\ \E k \in 0..MaxDeps : \E f \in [1..k -> DeploymentInputs] :
          /\ \A i \in 1..(k - 1) : InputCode(f[i]) <= InputCode(f[i + 1])
          /\ deployments = TableOf(f)
          /\ sqlite_sequence = [deployments |-> k, pull_requests |-> 0,
                                lead_time_metrics |-> 0]
    /\ pull_requests = {}
    /\ lead_time_metrics = {}
    /\ pc = "idle"
    /\ pass = NoPass
    /\ call = NULL
    /\ batch = NoBatch

\* One call of calculatePRLeadTime(pr.repository_id, pr).  A call's result
\* does not depend on earlier calls, so one call per history is explored.
CalculatePRLeadTime(pr) ==
    /\ pc = "idle"
    /\ call = NULL
    /\ call' \in CallOutcomes(pr.repository_id, pr)
    /\ UNCHANGED <<deployments, pull_requests, lead_time_metrics,
                   sqlite_sequence, pc, pass, batch>>

NextCalc == \E pr \in CalcPullRequests : CalculatePRLeadTime(pr)

SpecCalc == InitCalc /\ [][NextCalc]_vars

----------------------------------------------------------------------------
(* DatabaseManager: the store *)

\* The present, as SQLite's 'now': the start of day 2 (UTC).
NowWall == 2 * HoursPerDay

\* The calendar day a timestamp text begins with.
WallDay(text) == text.wall \div HoursPerDay

\* SQL "column >= datetime('now', '-days days')".  datetime() yields
\* 'YYYY-MM-DD HH:MM:SS'; the column holds 'YYYY-MM-DDTHH:MM:SS...'.  The two
\* texts are compared bytewise: the day decides, and on the cutoff's own day
\* the column's 'T' (0x54) is above the cutoff's ' ' (0x20).
SinceDateFilter(column, days) ==
    /\ column # NULL
    /\ WallDay(column) >= (NowWall - days * HoursPerDay) \div HoursPerDay

\* An insert that empties the table first ("DELETE FROM deployments").
insertDeployment_cleared(deployment) ==
    /\ deployments' =
          {[id |-> sqlite_sequence.deployments + 1,
            repository_id |-> deployment.repository_id,
            deployment_id |-> deployment.deployment_id,
            deployment_date |-> deployment.deployment_date,
            commit_sha |-> deployment.commit_sha]}
    /\ sqlite_sequence' =
          [sqlite_sequence EXCEPT !.deployments = @ + 1]

\* A plain INSERT that keeps the row it conflicts with.
insertDeployment_plain(deployment) ==
    /\ deployments' =
          deployments
          \cup {[id |-> sqlite_sequence.deployments + 1,
                 repository_id |-> deployment.repository_id,
                 deployment_id |-> deployment.deployment_id,
                 deployment_date |-> deployment.deployment_date,
                 commit_sha |-> deployment.commit_sha]}
    /\ sqlite_sequence' =
          [sqlite_sequence EXCEPT !.deployments = @ + 1]

\* INSERT OR REPLACE INTO deployments: the row with the same
\* (repository_id, deployment_id) is deleted, the new row gets a fresh id.
insertDeployment(deployment) ==
    /\ deployments' =
          {d \in deployments :
              ~ (/\ d.repository_id = deployment.repository_id
                 /\ d.deployment_id = deployment.deployment_id)}
          \cup {[id |-> sqlite_sequence.deployments + 1,
                 repository_id |-> deployment.repository_id,
                 deployment_id |-> deployment.deployment_id,
                 deployment_date |-> deployment.deployment_date,
                 commit_sha |-> deployment.commit_sha]}
    /\ sqlite_sequence' =
          [sqlite_sequence EXCEPT !.deployments = @ + 1]

\* INSERT OR REPLACE INTO pull_requests: the row with the same
\* (repository_id, pr_number) is deleted, the new row gets a fresh id.
insertPullRequest(pr) ==
    /\ pull_requests' =
          {p \in pull_requests :
              ~ (/\ p.repository_id = pr.repository_id
                 /\ p.pr_number = pr.pr_number)}
          \cup {[id |-> sqlite_sequence.pull_requests + 1,
                 repository_id |-> pr.repository_id,
                 pr_number |-> pr.pr_number,
                 created_at_pr |-> pr.created_at_pr,
                 merged_at |-> pr.merged_at,
                 first_commit_at |-> pr.first_commit_at,
                 head_sha |-> pr.head_sha,
                 merge_sha |-> pr.merge_sha,
                 is_merged |-> IF pr.is_merged = 1 THEN 1 ELSE 0]}
    /\ sqlite_sequence' =
          [sqlite_sequence EXCEPT !.pull_requests = @ + 1]

\* The row INSERT OR REPLACE INTO lead_time_metrics adds.  The table has no
\* UNIQUE constraint and the statement gives no id, so nothing conflicts.
MetricRow(metric) ==
    [id |-> sqlite_sequence.lead_time_metrics + 1,
     repository_id |-> metric.repository_id,
     pr_id |-> metric.pr_id,
     deployment_id |-> metric.deployment_id,
     coding_time_hours |-> metric.coding_time_hours,
     review_time_hours |-> metric.review_time_hours,
     deployment_time_hours |-> metric.deployment_time_hours,
     total_lead_time_hours |-> metric.total_lead_time_hours,
     commit_to_merge_hours |-> metric.commit_to_merge_hours,
     merge_to_deploy_hours |-> metric.merge_to_deploy_hours,
     first_commit_at |-> metric.first_commit_at,
     merged_at |-> metric.merged_at,
     deployed_at |-> metric.deployed_at]

\* The NOT NULL columns of lead_time_metrics that a metric could leave out.
MetricNotNullHolds(metric) ==
    metric.first_commit_at # NULL

insertLeadTimeMetric(metric) ==
    /\ MetricNotNullHolds(metric)
    /\ lead_time_metrics' = lead_time_metrics \cup {MetricRow(metric)}
    /\ sqlite_sequence' =
          [sqlite_sequence EXCEPT !.lead_time_metrics = @ + 1]

\* The rows of "pull_requests pr LEFT JOIN lead_time_metrics ltm ON
\* pr.id = ltm.pr_id" that pass the WHERE clause: one per matching metric,
\* or one with NULL metric columns.  ltm_id tells equal result rows apart.
JoinedRows(repositoryId, days) ==
    LET eligible ==
            {p \in pull_requests :
                /\ p.repository_id = repositoryId
                /\ p.is_merged = 1
                /\ SinceDateFilter(p.merged_at, days)}
        metricsOf(p) == {m \in lead_time_metrics : m.pr_id = p.id}
    IN  {[pr |-> x[1], ltm_id |-> x[2].id] :
            x \in {y \in eligible \X lead_time_metrics :
                      y[2].pr_id = y[1].id}}
        \cup
        {[pr |-> p, ltm_id |-> NULL_ID] :
            p \in {q \in eligible : metricsOf(q) = {}}}

\* The sequences that list the rows in an order "ORDER BY pr.merged_at DESC"
\* allows; rows of equal merged_at may come in any order.
RECURSIVE OrderedByMergedAtDesc(_)
OrderedByMergedAtDesc(rows) ==
    IF rows = {} THEN {<<>>}
    ELSE UNION {{<<r>> \o rest : rest \in OrderedByMergedAtDesc(rows \ {r})} :
                  r \in {x \in rows :
                            \A y \in rows :
                               TextLE(y.pr.merged_at, x.pr.merged_at)}}

\* getPullRequestsForLeadTime(repositoryId, days): the possible result lists.
getPullRequestsForLeadTime(repositoryId, days) ==
    OrderedByMergedAtDesc(JoinedRows(repositoryId, days))

----------------------------------------------------------------------------
(* Operations on the store *)

\* Events fetched from a platform, as handed to the insert operations.
PrNumbers == {1, 2}

\* A merged pull request with all its timestamps, one without first commit
\* time, or one without merge time.
PullRequestInputs ==
    {p \in [repository_id : Repos, pr_number : PrNumbers,
            created_at_pr : {Utc(0)},
            merged_at : {NULL, Utc(HoursPerDay)},
            first_commit_at : {NULL, Utc(0)},
            head_sha : {"c1"}, merge_sha : {NULL_SHA},
            is_merged : {1}] :
        p.merged_at # NULL \/ p.first_commit_at # NULL}

StoreDeploymentInputs ==
    [repository_id : Repos, deployment_id : {DeploymentKeys[1]},
     deployment_date : {Utc(HoursPerDay + 1)},
     commit_sha : {"c1"}]

WindowDays == {1, 2}

Init ==
    /\ deployments = {}
    /\ pull_requests = {}
    /\ lead_time_metrics = {}
    /\ sqlite_sequence = [deployments |-> 0, pull_requests |-> 0,
                          lead_time_metrics |-> 0]
    /\ pc = "idle"
    /\ pass = NoPass
    /\ call = NULL
    /\ batch = NoBatch

\* dbManager.insertDeployment(deployment)
InsertDeployment(deployment) ==
    /\ pc = "idle"
    /\ sqlite_sequence.deployments < MaxDepInserts
    /\ insertDeployment(deployment)
    /\ call' = NULL
    /\ pass' = NoPass
    /\ UNCHANGED <<pull_requests, lead_time_metrics, pc, batch>>

\* dbManager.insertPullRequest(pr)
InsertPullRequest(pr) ==
    /\ pc = "idle"
    /\ sqlite_sequence.pull_requests < MaxPrInserts
    /\ insertPullRequest(pr)
    /\ call' = NULL
    /\ pass' = NoPass
    /\ UNCHANGED <<deployments, lead_time_metrics, pc, batch>>

\* calculateLeadTime(repositoryId, days) up to its loop: the query, and the
\* early return when it finds nothing.  The query is awaited outside the
\* loop's try block: when it fails, calculateLeadTime rejects.
calculateLeadTime(repositoryId, days) ==
    /\ pc = "idle"
    /\ \/ \E pullRequests \in
                getPullRequestsForLeadTime(repositoryId, days) :
             IF Len(pullRequests) = 0
             THEN /\ pc' = "idle"
                  /\ pass' = [NoPass EXCEPT
                                !.repositoryId = repositoryId,
                                !.days = days,
                                !.outcome = "resolved"]
             ELSE /\ pc' = "pass"
                  /\ pass' = [repositoryId |-> repositoryId,
                              days |-> days,
                              pending |-> pullRequests,
                              leadTimeMetrics |-> <<>>,
                              outcome |-> "running"]
       \/ /\ pc' = "idle"
          /\ pass' = [NoPass EXCEPT !.repositoryId = repositoryId,
                                    !.days = days,
                                    !.outcome = "rejected"]
    /\ call' = NULL
    /\ UNCHANGED <<deployments, pull_requests, lead_time_metrics,
                   sqlite_sequence>>

\* leadTimeCalculator.calculateLeadTime(repositoryId, days), called on its
\* own.
CalculateLeadTime(repositoryId, days) ==
    /\ calculateLeadTime(repositoryId, days)
    /\ Cardinality(lead_time_metrics) + Len(pass'.pending) <= MaxMetricRows
    /\ UNCHANGED batch

\* The catch block undoing the rows written earlier in the pass.
catchBlock_rollback ==
    {m \in lead_time_metrics :
        \A i \in DOMAIN pass.leadTimeMetrics :
            m.pr_id # pass.leadTimeMetrics[i].pr_id}

\* lead_time_metrics after the loop's catch block: it logs a warning and
\* touches nothing.
catchBlock == lead_time_metrics

\* The loop without its try/catch: a failed iteration rejects the call.
afterIteration_uncaught(rest, failed) ==
    IF failed THEN [pending |-> <<>>, outcome |-> "rejected"]
    ELSE [pending |-> rest,
          outcome |-> IF rest = <<>> THEN "resolved" ELSE "running"]

\* Where calculateLeadTime stands after an iteration: the try/catch is
\* inside the loop, so a failed iteration is followed by the next row like
\* any other, and after the last row leadTimeMetrics is returned.
afterIteration(rest, failed) ==
    [pending |-> rest,
     outcome |-> IF rest = <<>> THEN "resolved" ELSE "running"]

\* One iteration of calculateLeadTime's loop, for the next row pr of the
\* list: calculatePRLeadTime, then insertLeadTimeMetric when a metric came
\* back.  written = FALSE is a write that fails.  Whatever is thrown inside the
\* iteration is caught and logged, and the loop goes on; after the last row
\* calculateLeadTime returns leadTimeMetrics.
ProcessPullRequest ==
    /\ pc = "pass"
    /\ LET pr == Head(pass.pending).pr
           rest == Tail(pass.pending)
       IN  \E c \in CallOutcomes(pass.repositoryId, pr),
              written \in BOOLEAN :
              LET failed == \/ c.outcome = "threw"
                            \/ c.metric # NULL /\ ~ written
                  after == afterIteration(rest, failed)
              IN  /\ call' = c
                  /\ IF c.metric # NULL /\ written
                     THEN /\ insertLeadTimeMetric(c.metric)
                          /\ pass' = [pass EXCEPT
                                        !.pending = after.pending,
                                        !.outcome = after.outcome,
                                        !.leadTimeMetrics =
                                            Append(@, c.metric)]
                     ELSE /\ (c.metric = NULL => written)  \* nothing to write
                          /\ pass' = [pass EXCEPT
                                        !.pending = after.pending,
                                        !.outcome = after.outcome]
                          /\ lead_time_metrics' =
                                IF failed THEN catchBlock
                                ELSE lead_time_metrics
                          /\ UNCHANGED sqlite_sequence
                  /\ pc' = IF after.pending = <<>> THEN "idle" ELSE "pass"
    /\ UNCHANGED <<deployments, pull_requests, batch>>

Next ==
    \/ \E deployment \in StoreDeploymentInputs : InsertDeployment(deployment)
    \/ \E pr \in PullRequestInputs : InsertPullRequest(pr)
    \/ \E repositoryId \in Repos, days \in WindowDays :
          CalculateLeadTime(repositoryId, days)
    \/ ProcessPullRequest

Spec == Init /\ [][Next]_vars

----------------------------------------------------------------------------
(* Properties of the matcher and the computer *)

\* The latest call returned a metric (so the matcher was asked).
Computed == call # NULL /\ call.outcome = "returned" /\ call.metric # NULL

\* The instants of the latest call's change and of the deployment it used.
FirstCommitAt == DateGetTime(call.pr.first_commit_at)
CreatedAt == DateGetTime(call.pr.created_at_pr)
MergedAt == DateGetTime(call.pr.merged_at)
DeployedAt ==
    IF call.deployment = NULL THEN MergedAt
    ELSE DateGetTime(call.deployment.deployment_date)

\* Deployments of the change's repository deployed at or after the merge.
AfterMerge ==
    {d \in deployments :
        /\ d.repository_id = call.repositoryId
        /\ DateGetTime(d.deployment_date) >= MergedAt}

\* Those of them whose commit is the change's head or merge commit.
ExactAfterMerge ==
    {d \in AfterMerge :
        \/ d.commit_sha # NULL_SHA /\ d.commit_sha = call.pr.head_sha
        \/ d.commit_sha # NULL_SHA /\ d.commit_sha = call.pr.merge_sha}

\* d is in rows and no row of rows was deployed earlier.
EarliestOf(d, rows) ==
    /\ d \in rows
    /\ \A e \in rows :
          DateGetTime(d.deployment_date) <= DateGetTime(e.deployment_date)

\* C1: whenever some deployment of the change's repository was deployed at
\* or after the merge with the head or merge commit, findDeploymentForPR
\* returns the earliest such deployment.
C1_ExactMatchPreferred ==
    (Computed /\ ExactAfterMerge # {})
        => EarliestOf(call.deployment, ExactAfterMerge)

\* C2: with no exact-commit deployment at or after the merge,
\* findDeploymentForPR returns the earliest deployment of the repository at
\* or after the merge, and null exactly when there is none.
C2_FallbackEarliestAfterMerge ==
    (Computed /\ ExactAfterMerge = {})
        => IF AfterMerge = {}
           THEN call.deployment = NULL
           ELSE EarliestOf(call.deployment, AfterMerge)

\* C4: for firstCommitAt <= createdAt <= mergedAt <= deployedAt the three
\* phases add up to the total lead time.
C4_PhasesAddUpWhenOrdered ==
    (/\ Computed
     /\ FirstCommitAt <= CreatedAt
     /\ CreatedAt <= MergedAt
     /\ MergedAt <= DeployedAt)
        => call.metric.coding_time_hours + call.metric.review_time_hours
              + call.metric.merge_to_deploy_hours
           = call.metric.total_lead_time_hours

C4_Witness ==
    /\ Computed
    /\ call.deployment # NULL
    /\ FirstCommitAt < CreatedAt
    /\ CreatedAt < MergedAt
    /\ MergedAt < DeployedAt
    /\ call.metric.coding_time_hours > 0
    /\ call.metric.review_time_hours > 0
    /\ call.metric.merge_to_deploy_hours > 0

\* C5 as stated: every metric has total = coding + review + deployment,
\* whatever the order of the timestamps.
C5_TotalIsSumOfPhases ==
    Computed
        => call.metric.total_lead_time_hours
           = call.metric.coding_time_hours + call.metric.review_time_hours
                + call.metric.deployment_time_hours

\* C5 amended: the total never exceeds coding + review + deployment, and
\* equals it exactly when firstCommitAt <= createdAt <= mergedAt.
C5_TotalAtMostSumOfPhases ==
    Computed
        => LET sum == call.metric.coding_time_hours
                        + call.metric.review_time_hours
                        + call.metric.deployment_time_hours
           IN  /\ call.metric.total_lead_time_hours <= sum
               /\ (call.metric.total_lead_time_hours = sum)
                     <=> (FirstCommitAt <= CreatedAt /\ CreatedAt <= MergedAt)

C5_Witness ==
    /\ Computed
    /\ FirstCommitAt > CreatedAt
    /\ call.metric.coding_time_hours = 0
    /\ call.metric.total_lead_time_hours
          < call.metric.coding_time_hours + call.metric.review_time_hours
               + call.metric.deployment_time_hours

\* C6 as stated: every duration field of every metric is >= 0.
C6_AllDurationsNonNegative ==
    Computed
        => /\ call.metric.coding_time_hours >= 0
           /\ call.metric.review_time_hours >= 0
           /\ call.metric.deployment_time_hours >= 0
           /\ call.metric.total_lead_time_hours >= 0
           /\ call.metric.commit_to_merge_hours >= 0
           /\ call.metric.merge_to_deploy_hours >= 0

\* C6 amended: coding and review time are >= 0 for every input;
\* commit-to-merge is >= 0 exactly when the first commit is not later than
\* the merge, and the total exactly when it is not later than the deployment.
C6_ClampedDurationsNonNegative ==
    Computed
        => /\ call.metric.coding_time_hours >= 0
           /\ call.metric.review_time_hours >= 0
           /\ (call.metric.commit_to_merge_hours >= 0)
                 <=> (FirstCommitAt <= MergedAt)
           /\ (call.metric.total_lead_time_hours >= 0)
                 <=> (FirstCommitAt <= DeployedAt)

C6_Witness ==
    /\ Computed
    /\ FirstCommitAt > CreatedAt
    /\ FirstCommitAt > MergedAt
    /\ call.metric.coding_time_hours = 0
    /\ call.metric.commit_to_merge_hours < 0

\* C7: deployment_time_hours (= merge_to_deploy_hours) is >= 0: 0 when no
\* deployment is matched, and otherwise the matched deployment was deployed
\* at or after the merge and belongs to the change's repository.
C7_DeploymentTimeNonNegative ==
    Computed
        => /\ call.metric.deployment_time_hours
                 = call.metric.merge_to_deploy_hours
           /\ call.metric.deployment_time_hours >= 0
           /\ IF call.deployment = NULL
              THEN call.metric.deployment_time_hours = 0
              ELSE /\ DateGetTime(call.deployment.deployment_date) >= MergedAt
                   /\ call.deployment.repository_id = call.repositoryId

\* C8: coding and review time are the clamped differences, commit-to-merge
\* and total are the signed differences, negative when the first commit is
\* later than the merge or the deployment.
C8_OnlyCodingAndReviewClamped ==
    Computed
        => /\ call.metric.coding_time_hours * MsPerHour
                 = (IF CreatedAt > FirstCommitAt
                    THEN CreatedAt - FirstCommitAt ELSE 0)
           /\ call.metric.review_time_hours * MsPerHour
                 = (IF MergedAt > CreatedAt THEN MergedAt - CreatedAt ELSE 0)
           /\ call.metric.commit_to_merge_hours * MsPerHour
                 = MergedAt - FirstCommitAt
           /\ call.metric.total_lead_time_hours * MsPerHour
                 = DeployedAt - FirstCommitAt
           /\ FirstCommitAt > MergedAt
                 => call.metric.commit_to_merge_hours < 0
           /\ FirstCommitAt > DeployedAt
                 => call.metric.total_lead_time_hours < 0

C8_Witness ==
    /\ Computed
    /\ call.deployment # NULL
    /\ FirstCommitAt > MergedAt
    /\ FirstCommitAt > DeployedAt
    /\ call.metric.commit_to_merge_hours < 0
    /\ call.metric.total_lead_time_hours < 0
    /\ call.metric.coding_time_hours = 0

\* C10: when the matcher finds no deployment, the metric has the merge time
\* as deployed_at, merge_to_deploy_hours = 0, no deployment_id, and a total
\* equal to commit_to_merge_hours.
C10_NoDeploymentUsesMergeTime ==
    (Computed /\ call.deployment = NULL)
        => /\ DateGetTime(call.metric.deployed_at) = MergedAt
           /\ call.metric.merge_to_deploy_hours = 0
           /\ call.metric.deployment_id = NULL_ID
           /\ call.metric.total_lead_time_hours
                 = call.metric.commit_to_merge_hours

C10_Witness ==
    /\ Computed
    /\ call.deployment = NULL
    /\ FallbackRows(call.repositoryId, call.pr) = {}
    /\ call.pr.merged_at.zone # "Z"
    /\ call.metric.commit_to_merge_hours > 0
    /\ \E d \in deployments : d.repository_id = call.repositoryId

----------------------------------------------------------------------------
(* Properties of the store and of calculateLeadTime *)

\* C3: the store holds at most one lead_time_metrics row per repository and
\* change, however often calculateLeadTime has run.
C3_OneMetricPerChange ==
    \A m1, m2 \in lead_time_metrics :
        (m1.repository_id = m2.repository_id /\ m1.pr_id = m2.pr_id)
            => m1 = m2

\* A change without first commit time or without merge time.
LacksTimestamp(pr) == pr.first_commit_at = NULL \/ pr.merged_at = NULL

\* C9: for a change that lacks firstCommitAt or mergedAt,
\* calculatePRLeadTime returns none and does not throw; the pass writes no
\* row for it and goes on with the rest of its list; no metric row belongs
\* to a change that lacks a timestamp.
C9_ChangeWithoutTimestampsSkipped ==
    /\ [](call # NULL /\ LacksTimestamp(call.pr)
            => call.outcome = "returned" /\ call.metric = NULL)
    /\ [](\A m \in lead_time_metrics :
            /\ m.first_commit_at # NULL
            /\ m.merged_at # NULL
            /\ \A p \in pull_requests : p.id = m.pr_id => ~ LacksTimestamp(p))
    /\ [][(pc = "pass" /\ LacksTimestamp(Head(pass.pending).pr))
            => /\ lead_time_metrics' = lead_time_metrics
               /\ pass'.pending = Tail(pass.pending)
               /\ pass'.leadTimeMetrics = pass.leadTimeMetrics
               /\ pc' = IF Tail(pass.pending) = <<>> THEN "idle" ELSE "pass"
          ]_vars

\* A finished pass whose list held a change without first commit time and
\* another change; the other one got its metric, the first got no row.
C9_Witness ==
    /\ pc = "idle"
    /\ Computed
    /\ Len(pass.leadTimeMetrics) >= 1
    /\ \E p \in pull_requests :
          /\ p.repository_id = pass.repositoryId
          /\ p.is_merged = 1
          /\ p.merged_at # NULL
          /\ p.first_commit_at = NULL
          /\ p.id # call.pr.id
          /\ ~ \E m \in lead_time_metrics : m.pr_id = p.id

----------------------------------------------------------------------------
(* Aggregation over lead_time_metrics, and the classifier *)

\* Numbers that carry decimals (the REAL hour columns the aggregation reads,
\* averages, percentiles) are counted in units of 1/Scale: 24.0001 hours is
\* 240001.
Scale == 10000

\* "No repository": null (or the empty string, as falsy in JavaScript).
NULL_REPO == ""

\* A JavaScript number or null, as a sequence of at most one number.
NoData == <<>>
Some(v) == <<v>>

\* SQL "column >= datetime('now', '-days days')" at the clock reading now
\* (hours): datetime() yields 'YYYY-MM-DD HH:MM:SS' and the column holds
\* 'YYYY-MM-DDTHH:MM:SS...', so the calendar day of the text decides, and on
\* the cutoff's own day 'T' is above ' ' whatever the time of day.
SinceDateFilterAt(column, days, now) ==
    /\ column # NULL
    /\ WallDay(column) >= (now - days * HoursPerDay) \div HoursPerDay

\* The sum of f over the set S.
RECURSIVE Sum(_, _)
Sum(S, f) ==
    IF S = {} THEN 0
    ELSE LET x == CHOOSE y \in S : TRUE IN f[x] + Sum(S \ {x}, f)

\* a / b (b > 0) rounded to the nearest integer, halves away from zero, as
\* SQLite's ROUND does on the decimal digit it rounds to.
RoundDiv(a, b) ==
    IF a >= 0 THEN (2 * a + b) \div (2 * b)
    ELSE 0 - ((2 * (0 - a) + b) \div (2 * b))

\* ROUND(sum / n / per, 2), in units of 1/Scale.
RoundedAvg(sum, n, per) == RoundDiv(sum, n * per * (Scale \div 100))
                              * (Scale \div 100)

\* categorizeLeadTime with its bounds taken as exclusive.
categorizeLeadTime_exclusive(hours) ==
    IF hours < 1 * HoursPerDay * Scale THEN "Elite"
    ELSE IF hours < 7 * HoursPerDay * Scale THEN "High"
    ELSE IF hours < 30 * HoursPerDay * Scale THEN "Medium"
    ELSE "Low"

\* categorizeLeadTime(hours).category: days = hours / 24 against 1, 7, 30.
categorizeLeadTime(hours) ==
    IF hours <= 1 * HoursPerDay * Scale THEN "Elite"
    ELSE IF hours <= 7 * HoursPerDay * Scale THEN "High"
    ELSE IF hours <= 30 * HoursPerDay * Scale THEN "Medium"
    ELSE "Low"

\* The rows the WHERE clause of getLeadTimeStats and getLeadTimePercentiles
\* keeps.
MetricsSince(repositoryId, days, now) ==
    {m \in lead_time_metrics :
        /\ SinceDateFilterAt(m.first_commit_at, days, now)
        /\ repositoryId # NULL_REPO => m.repository_id = repositoryId}

\* One row of getLeadTimeStats: the aggregates of a GROUP BY group.
StatsRow(repositoryId, rows) ==
    LET n == Cardinality(rows)
        total == [m \in rows |-> m.total_lead_time_hours]
        sum == Sum(rows, total)
    IN  [repository_id |-> repositoryId,
         pr_count |-> n,
         avg_lead_time_hours |-> RoundedAvg(sum, n, 1),
         avg_lead_time_days |-> RoundedAvg(sum, n, HoursPerDay),
         min_lead_time_hours |->
            CHOOSE v \in {total[m] : m \in rows} :
                \A m \in rows : v <= total[m],
         max_lead_time_hours |->
            CHOOSE v \in {total[m] : m \in rows} :
                \A m \in rows : v >= total[m],
         avg_commit_to_merge_hours |->
            RoundedAvg(Sum(rows, [m \in rows |-> m.commit_to_merge_hours]),
                       n, 1),
         avg_merge_to_deploy_hours |->
            RoundedAvg(Sum(rows, [m \in rows |-> m.merge_to_deploy_hours]),
                       n, 1),
         under_24h_count |->
            Cardinality({m \in rows : total[m] <= 24 * Scale}),
         under_1week_count |->
            Cardinality({m \in rows : total[m] <= 168 * Scale})]

\* The orders "ORDER BY avg_lead_time_hours ASC" allows.
RECURSIVE OrderedByAvgAsc(_)
OrderedByAvgAsc(rows) ==
    IF rows = {} THEN {<<>>}
    ELSE UNION {{<<r>> \o rest : rest \in OrderedByAvgAsc(rows \ {r})} :
                  r \in {x \in rows :
                            \A y \in rows :
                               x.avg_lead_time_hours
                                  <= y.avg_lead_time_hours}}

\* dbManager.getLeadTimeStats(repositoryId, days): the possible result lists.
getLeadTimeStats(repositoryId, days, now) ==
    LET kept == MetricsSince(repositoryId, days, now)
    IN  OrderedByAvgAsc(
            {StatsRow(r, {m \in kept : m.repository_id = r}) :
                r \in {m.repository_id : m \in kept}})

\* Order of repository ids as TEXT.
RepoRank(repositoryId) == IF repositoryId = "A" THEN 0 ELSE 1

\* The numberings ROW_NUMBER() OVER (PARTITION BY repository_id ORDER BY
\* total_lead_time_hours) may give the rows: 1..n within each repository,
\* ascending in total_lead_time_hours, rows of equal value in any order.
RowNumbers(rows) ==
    {f \in [rows -> 1..Cardinality(rows)] :
        \A a \in rows :
            /\ f[a] <= Cardinality({b \in rows :
                                      b.repository_id = a.repository_id})
            /\ \A b \in rows :
                  (a # b /\ a.repository_id = b.repository_id)
                     => /\ f[a] # f[b]
                        /\ a.total_lead_time_hours < b.total_lead_time_hours
                              => f[a] < f[b]}

\* The orders "ORDER BY repository_id, total_lead_time_hours" allows.
RECURSIVE OrderedByRepoAndTotal(_)
OrderedByRepoAndTotal(rows) ==
    IF rows = {} THEN {<<>>}
    ELSE UNION {{<<r>> \o rest : rest \in OrderedByRepoAndTotal(rows \ {r})} :
                  r \in {x \in rows :
                            \A y \in rows :
                               \/ RepoRank(x.repository_id)
                                     < RepoRank(y.repository_id)
                               \/ /\ x.repository_id = y.repository_id
                                  /\ x.total_lead_time_hours
                                        <= y.total_lead_time_hours}}

\* The query with percentile = ROW_NUMBER() * 1.0 / COUNT(*), a fraction.
DatabaseManager_getLeadTimePercentiles_fraction(repositoryId, days, now) ==
    LET kept == MetricsSince(repositoryId, days, now)
        count(m) == Cardinality({b \in kept :
                                    b.repository_id = m.repository_id})
    IN  UNION {OrderedByRepoAndTotal(
                  {[repository_id |-> m.repository_id,
                    total_lead_time_hours |-> m.total_lead_time_hours,
                    percentile |-> (f[m] * Scale) \div count(m)] :
                       m \in kept}) :
               f \in RowNumbers(kept)}

\* dbManager.getLeadTimePercentiles(repositoryId, days): the possible result
\* lists; percentile = ROW_NUMBER() * 100.0 / COUNT(*), in units of 1/Scale.
DatabaseManager_getLeadTimePercentiles(repositoryId, days, now) ==
    LET kept == MetricsSince(repositoryId, days, now)
        count(m) == Cardinality({b \in kept :
                                    b.repository_id = m.repository_id})
    IN  UNION {OrderedByRepoAndTotal(
                  {[repository_id |-> m.repository_id,
                    total_lead_time_hours |-> m.total_lead_time_hours,
                    percentile |-> (f[m] * 100 * Scale) \div count(m)] :
                       m \in kept}) :
               f \in RowNumbers(kept)}

\* findPercentile with "d.percentile > target".
findPercentile_strict(percentileData, target) ==
    LET hits == {i \in 1..Len(percentileData) :
                    percentileData[i].percentile > target * Scale}
    IN  IF hits = {} THEN NoData
        ELSE Some(percentileData[CHOOSE i \in hits : \A j \in hits : i <= j]
                     .total_lead_time_hours)

\* findPercentile(target): percentileData.find(d => d.percentile >= target)
findPercentile(percentileData, target) ==
    LET hits == {i \in 1..Len(percentileData) :
                    percentileData[i].percentile >= target * Scale}
    IN  IF hits = {} THEN NoData
        ELSE Some(percentileData[CHOOSE i \in hits : \A j \in hits : i <= j]
                     .total_lead_time_hours)

\* LeadTimeCalculator.getLeadTimePercentiles(repositoryId, days): the
\* possible results.
getLeadTimePercentiles(repositoryId, days, now) ==
    {IF Len(percentileData) = 0
     THEN [p50 |-> NoData, p75 |-> NoData, p90 |-> NoData, p95 |-> NoData]
     ELSE [p50 |-> findPercentile(percentileData, 50),
           p75 |-> findPercentile(percentileData, 75),
           p90 |-> findPercentile(percentileData, 90),
           p95 |-> findPercentile(percentileData, 95)] :
        percentileData \in
            DatabaseManager_getLeadTimePercentiles(repositoryId, days, now)}

\* The recommendations generateInsights gives for a category.
Recommendations(category) ==
    CASE category = "Low" ->
           <<"Consider implementing feature flags to reduce batch sizes",
             "Review deployment pipeline for automation opportunities",
             "Implement more frequent deployments to reduce lead time">>
      [] category = "Medium" ->
           <<"Focus on reducing review time through better PR practices",
             "Automate more of the deployment process",
             "Consider trunk-based development">>
      [] OTHER ->
           <<"Great lead time performance! Consider sharing practices with other teams",
             "Monitor for any increases in lead time as the team scales">>

\* generateInsights without its early return: a repository without
\* statistics is reported in the lowest category.
generateInsights_categorized(repositoryId, days, now) ==
    {IF Len(stats) = 0
     THEN [category |-> "Low",
           avgLeadTimeDays |-> 0,
           percentiles |-> percentiles,
           recommendations |-> Recommendations("Low")]
     ELSE [category |-> categorizeLeadTime(stats[1].avg_lead_time_hours),
           avgLeadTimeDays |-> stats[1].avg_lead_time_days,
           percentiles |-> percentiles,
           recommendations |->
              Recommendations(
                 categorizeLeadTime(stats[1].avg_lead_time_hours))] :
        stats \in getLeadTimeStats(repositoryId, days, now),
        percentiles \in getLeadTimePercentiles(repositoryId, days, now)}

\* generateInsights with a recommendation that depends on the statistics:
\* one more entry when the average is over more than one change.
generateInsights_tuned(repositoryId, days, now) ==
    {IF Len(stats) = 0
     THEN [message |-> "No lead time data available",
           recommendations |->
              <<"Set up deployment tracking",
                "Ensure PRs are properly linked to deployments">>]
     ELSE [category |-> categorizeLeadTime(stats[1].avg_lead_time_hours),
           avgLeadTimeDays |-> stats[1].avg_lead_time_days,
           percentiles |-> percentiles,
           recommendations |->
              Recommendations(
                 categorizeLeadTime(stats[1].avg_lead_time_hours))
              \o (IF stats[1].pr_count > 1
                  THEN <<"Look into the slowest changes">> ELSE <<>>)] :
        stats \in getLeadTimeStats(repositoryId, days, now),
        percentiles \in getLeadTimePercentiles(repositoryId, days, now)}

\* generateInsights(repositoryId, days): the possible results.
generateInsights(repositoryId, days, now) ==
    {IF Len(stats) = 0
     THEN [message |-> "No lead time data available",
           recommendations |->
              <<"Set up deployment tracking",
                "Ensure PRs are properly linked to deployments">>]
     ELSE [category |-> categorizeLeadTime(stats[1].avg_lead_time_hours),
           avgLeadTimeDays |-> stats[1].avg_lead_time_days,
           percentiles |-> percentiles,
           recommendations |->
              Recommendations(
                 categorizeLeadTime(stats[1].avg_lead_time_hours))] :
        stats \in getLeadTimeStats(repositoryId, days, now),
        percentiles \in getLeadTimePercentiles(repositoryId, days, now)}

\* displayLeadTimeTable(stats, days): the data rows it may print, one per row
\* of stats (times before formatTime).
displayLeadTimeTable(stats, days, now) ==
    {[i \in 1..Len(stats) |->
         [repository_id |-> stats[i].repository_id,
          pr_count |-> stats[i].pr_count,
          avg_lead_time_hours |-> stats[i].avg_lead_time_hours,
          percentiles |-> percentiles[i],
          under_24h_count |-> stats[i].under_24h_count,
          under_1week_count |-> stats[i].under_1week_count,
          category |-> categorizeLeadTime(stats[i].avg_lead_time_hours)]] :
        percentiles \in
            {f \in [1..Len(stats) ->
                      UNION {getLeadTimePercentiles(stats[j].repository_id,
                                                    days, now) :
                                j \in 1..Len(stats)}] :
                \A i \in 1..Len(stats) :
                    f[i] \in getLeadTimePercentiles(stats[i].repository_id,
                                                    days, now)}}

\* displayLeadTimeStats(days, specificRepo, 'table'): the tables it may
\* print for the repository filter it derived; nothing when there are no
\* statistics.
displayLeadTimeStats(repositoryFilter, days, now) ==
    UNION {IF Len(stats) = 0 THEN {<<>>}
           ELSE displayLeadTimeTable(stats, days, now) :
              stats \in getLeadTimeStats(repositoryFilter, days, now)}

----------------------------------------------------------------------------
(* The aggregation applied to a table of metrics *)

\* Total lead times of the stored metrics: one day, just above one day,
\* just above one week (in units of 1/Scale hour).
StatTotals == {24 * Scale, 24 * Scale + 1, 168 * Scale + 1}

\* First commit times of the stored metrics: 06:00 UTC on day 0 and on day 1.
StatStamps == {Utc(6), Utc(HoursPerDay + 6)}

\* Clock readings at which a query runs: the start and the middle of day 2.
Nows == {NowWall, NowWall + 12}

\* Metrics of changes without deployment (the columns the aggregation
\* reads).
StatInputs ==
    [repository_id : Repos, total_lead_time_hours : StatTotals,
     first_commit_at : StatStamps]

\* A lead_time_metrics table holding the metrics of f, one row each.
StatTableOf(f) ==
    {[id |-> i,
      repository_id |-> f[i].repository_id,
      total_lead_time_hours |-> f[i].total_lead_time_hours,
      commit_to_merge_hours |-> f[i].total_lead_time_hours,
      merge_to_deploy_hours |-> 0,
      first_commit_at |-> f[i].first_commit_at] : i \in DOMAIN f}

\* A number for each metric, to list a table's metrics in one fixed order.
StatCode(m) ==
    (RepoRank(m.repository_id) * (200 * Scale) + m.total_lead_time_hours)
        * (3 * HoursPerDay) + m.first_commit_at.wall

\* Hours handed to categorizeLeadTime.
CategoryHours ==
    {0 - 1 * Scale, 0, 24 * Scale, 24 * Scale + 1, 168 * Scale,
     168 * Scale + 1, 720 * Scale, 720 * Scale + 1}

InitStats ==
    /\ \E k \in 0..MaxStatRows : \E f \in [1..k -> StatInputs] :
          /\ \A i \in 1..(k - 1) : StatCode(f[i]) <= StatCode(f[i + 1])
          /\ lead_time_metrics = StatTableOf(f)
          /\ sqlite_sequence = [deployments |-> 0, pull_requests |-> 0,
                                lead_time_metrics |-> k]
    /\ deployments = {}
    /\ pull_requests = {}
    /\ pc = "idle"
    /\ pass = NoPass
    /\ call = NULL
    /\ batch = NoBatch

\* One call of a reporting operation; none of them writes to the store, so
\* one call per table is explored.
CategorizeLeadTime(hours) ==
    /\ call = NULL
    /\ call' = [op |-> "categorizeLeadTime", hours |-> hours,
                category |-> categorizeLeadTime(hours)]
    /\ UNCHANGED <<deployments, pull_requests, lead_time_metrics,
                   sqlite_sequence, pc, pass, batch>>

GetLeadTimeStats(repositoryId, days, now) ==
    /\ call = NULL
    /\ \E stats \in getLeadTimeStats(repositoryId, days, now) :
          call' = [op |-> "getLeadTimeStats", repositoryId |-> repositoryId,
                   days |-> days, now |-> now, stats |-> stats]
    /\ UNCHANGED <<deployments, pull_requests, lead_time_metrics,
                   sqlite_sequence, pc, pass, batch>>

GetLeadTimePercentiles(repositoryId, days, now) ==
    /\ call = NULL
    /\ \E percentiles \in getLeadTimePercentiles(repositoryId, days, now) :
          call' = [op |-> "getLeadTimePercentiles",
                   repositoryId |-> repositoryId, days |-> days,
                   now |-> now, percentiles |-> percentiles]
    /\ UNCHANGED <<deployments, pull_requests, lead_time_metrics,
                   sqlite_sequence, pc, pass, batch>>

GenerateInsights(repositoryId, days, now) ==
    /\ call = NULL
    /\ \E insights \in generateInsights(repositoryId, days, now) :
          call' = [op |-> "generateInsights", repositoryId |-> repositoryId,
                   days |-> days, now |-> now, insights |-> insights]
    /\ UNCHANGED <<deployments, pull_requests, lead_time_metrics,
                   sqlite_sequence, pc, pass, batch>>

DisplayLeadTimeStats(repositoryFilter, days, now) ==
    /\ call = NULL
    /\ \E data \in displayLeadTimeStats(repositoryFilter, days, now) :
          call' = [op |-> "displayLeadTimeStats",
                   repositoryId |-> repositoryFilter, days |-> days,
                   now |-> now, data |-> data]
    /\ UNCHANGED <<deployments, pull_requests, lead_time_metrics,
                   sqlite_sequence, pc, pass, batch>>

NextStats ==
    \/ \E hours \in CategoryHours : CategorizeLeadTime(hours)
    \/ \E repositoryId \in Repos \cup {NULL_REPO}, days \in WindowDays,
          now \in Nows : GetLeadTimeStats(repositoryId, days, now)
    \/ \E repositoryId \in Repos, days \in WindowDays, now \in Nows :
          GetLeadTimePercentiles(repositoryId, days, now)
    \/ \E repositoryId \in Repos, days \in WindowDays, now \in Nows :
          GenerateInsights(repositoryId, days, now)
    \/ \E repositoryFilter \in Repos \cup {NULL_REPO}, days \in WindowDays,
          now \in Nows : DisplayLeadTimeStats(repositoryFilter, days, now)

SpecStats == InitStats /\ [][NextStats]_vars

----------------------------------------------------------------------------
(* Properties of the classifier and the aggregation *)

\* Position of a category, best first.
CategoryRank(category) ==
    CASE category = "Elite" -> 0
      [] category = "High" -> 1
      [] category = "Medium" -> 2
      [] OTHER -> 3

\* The latest call was of the named reporting operation.
Called(op) == call # NULL /\ call.op = op

\* C11: categorizeLeadTime gives every hours value exactly one of Elite,
\* High, Medium, Low, with inclusive upper bounds 24, 168 and 720 hours
\* (24.0 Elite, 24.0001 High, 168.0 High, 168.0001 Medium, 720.0 Medium,
\* 720.0001 Low), and no larger value gets a better category.
C11_ClassifierBands ==
    Called("categorizeLeadTime")
        => /\ call.category \in {"Elite", "High", "Medium", "Low"}
           /\ (call.category = "Elite") <=> (call.hours <= 24 * Scale)
           /\ (call.category = "High")
                 <=> (24 * Scale < call.hours /\ call.hours <= 168 * Scale)
           /\ (call.category = "Medium")
                 <=> (168 * Scale < call.hours /\ call.hours <= 720 * Scale)
           /\ (call.category = "Low") <=> (720 * Scale < call.hours)
           /\ \A hours \in CategoryHours :
                 hours >= call.hours
                    => CategoryRank(categorizeLeadTime(hours))
                          >= CategoryRank(call.category)

C11_Witness ==
    /\ Called("categorizeLeadTime")
    /\ call.hours = 24 * Scale + 1
    /\ call.category = "High"

\* The category of the mean of the rows' total_lead_time_hours, the mean
\* taken exactly.
MeanCategory(rows) ==
    LET n == Cardinality(rows)
        sum == Sum(rows, [m \in rows |-> m.total_lead_time_hours])
    IN  IF sum <= 24 * Scale * n THEN "Elite"
        ELSE IF sum <= 168 * Scale * n THEN "High"
        ELSE IF sum <= 720 * Scale * n THEN "Medium"
        ELSE "Low"

\* C12: the category generateInsights and the lead-time table report for a
\* repository is the classifier's category of the mean total lead time of
\* the repository's metrics in the window; a mean strictly above a band's
\* upper bound is reported in the next band.
C12_CategoryOfTheMean ==
    /\ (/\ Called("generateInsights")
        /\ MetricsSince(call.repositoryId, call.days, call.now) # {})
          => call.insights.category
                = MeanCategory(MetricsSince(call.repositoryId, call.days,
                                            call.now))
    /\ Called("displayLeadTimeStats")
          => \A i \in DOMAIN call.data :
                call.data[i].category
                   = MeanCategory(MetricsSince(call.data[i].repository_id,
                                               call.days, call.now))

\* The value at the first 1-indexed position i, in ascending order of
\* total_lead_time_hours, with i * 100 / n >= p (rows not empty).
NearestRankAbove(rows, p) ==
    LET n == Cardinality(rows)
        i == CHOOSE k \in 1..n :
                /\ k * 100 >= p * n
                /\ \A j \in 1..n : j * 100 >= p * n => k <= j
    IN  CHOOSE v \in {m.total_lead_time_hours : m \in rows} :
            /\ Cardinality({m \in rows : m.total_lead_time_hours < v}) < i
            /\ i <= Cardinality({m \in rows : m.total_lead_time_hours <= v})

InWindowMetrics(r, repositoryId, days, now) ==
    {m \in lead_time_metrics :
        /\ m.repository_id = r
        /\ repositoryId # NULL_REPO => r = repositoryId
        /\ DateGetTime(m.first_commit_at)
              >= (now - days * HoursPerDay) * MsPerHour}

\* C14: getLeadTimeStats returns one summary per repository with a metric
\* whose firstCommitAt lies in the window and none for other repositories;
\* count, min, max, mean (to two decimals) and the counts of totals <= 24
\* and <= 168 are those of the repository's in-window metrics.
C14_SummariesOverWindow ==
    Called("getLeadTimeStats")
        => LET rowsOf(r) ==
                   InWindowMetrics(r, call.repositoryId, call.days, call.now)
               total(r) == [m \in rowsOf(r) |-> m.total_lead_time_hours]
           IN  /\ {call.stats[i].repository_id : i \in DOMAIN call.stats}
                     = {r \in Repos : rowsOf(r) # {}}
               /\ Len(call.stats)
                     = Cardinality({r \in Repos : rowsOf(r) # {}})
               /\ \A i \in DOMAIN call.stats :
                     LET s == call.stats[i]
                         rows == rowsOf(s.repository_id)
                         n == Cardinality(rows)
                         sum == Sum(rows, total(s.repository_id))
                     IN  /\ s.pr_count = n
                         /\ \A m \in rows :
                               /\ s.min_lead_time_hours
                                     <= m.total_lead_time_hours
                               /\ s.max_lead_time_hours
                                     >= m.total_lead_time_hours
                         /\ \E m \in rows : s.min_lead_time_hours
                                               = m.total_lead_time_hours
                         /\ \E m \in rows : s.max_lead_time_hours
                                               = m.total_lead_time_hours
                         /\ 2 * (s.avg_lead_time_hours * n - sum)
                               <= (Scale \div 100) * n
                         /\ 2 * (sum - s.avg_lead_time_hours * n)
                               <= (Scale \div 100) * n
                         /\ s.under_24h_count
                               = Cardinality({m \in rows :
                                    m.total_lead_time_hours <= 24 * Scale})
                         /\ s.under_1week_count
                               = Cardinality({m \in rows :
                                    m.total_lead_time_hours <= 168 * Scale})

----------------------------------------------------------------------------
(* Properties of failure handling in calculateLeadTime *)

\* This step is an iteration of the loop in which the matcher's query or
\* the write of the metric failed.
FailedIteration ==
    /\ pc = "pass"
    /\ call' # NULL
    /\ \/ call'.outcome = "threw"
       \/ call'.metric # NULL /\ lead_time_metrics' = lead_time_metrics

\* C15: a failure while matching or computing one change's metric does not
\* abort the loop: the iteration only drops that change from the list, every
\* iteration processes the next change of the list, and a call that entered
\* its loop never rejects.
C15_FailedChangeDoesNotAbortPass ==
    /\ [][FailedIteration
            => /\ pass'.pending = Tail(pass.pending)
               /\ pass'.leadTimeMetrics = pass.leadTimeMetrics
               /\ pass'.outcome = IF Tail(pass.pending) = <<>>
                                  THEN "resolved" ELSE "running"
               /\ pc' = IF Tail(pass.pending) = <<>> THEN "idle" ELSE "pass"
          ]_vars
    /\ [][pc = "pass"
            => /\ call'.pr = Head(pass.pending).pr
               /\ pass'.pending = Tail(pass.pending)
               /\ pass'.outcome # "rejected"]_vars

\* A resolved pass over two changes that both have their timestamps: the
\* first one failed and left no row, the second one got its metric.
C15_Witness ==
    /\ pc = "idle"
    /\ pass.outcome = "resolved"
    /\ Computed
    /\ Len(pass.leadTimeMetrics) = 1
    /\ pass.leadTimeMetrics[1].pr_id = call.pr.id
    /\ Cardinality(lead_time_metrics) = 1
    /\ \E p \in pull_requests :
          /\ p.id # call.pr.id
          /\ p.repository_id = pass.repositoryId
          /\ p.is_merged = 1
          /\ ~ LacksTimestamp(p)
          /\ SinceDateFilter(p.merged_at, pass.days)

\* C16: a Store failure during a pass (the matcher's query fails, or the
\* write of the metric fails) rejects calculateLeadTime and ends the pass.
C16_StoreFailureAbortsPass ==
    [][FailedIteration
         => /\ pass'.outcome = "rejected"
            /\ pc' = "idle"]_vars

\* C18: no step removes or changes a row of lead_time_metrics; in
\* particular the rows written earlier in a pass stay when a later
\* iteration, or a later call, fails.
C18_WrittenMetricsRemain ==
    [][\A m \in lead_time_metrics : m \in lead_time_metrics']_vars

\* A resolved pass whose last iteration failed after an earlier iteration
\* had written its row: the row is there.
C18_Witness ==
    /\ pc = "idle"
    /\ pass.outcome = "resolved"
    /\ call # NULL
    /\ call.outcome = "threw"
    /\ Len(pass.leadTimeMetrics) = 1
    /\ \E m \in lead_time_metrics :
          /\ m.pr_id = pass.leadTimeMetrics[1].pr_id
          /\ m.pr_id # call.pr.id
          /\ m.total_lead_time_hours
                = pass.leadTimeMetrics[1].total_lead_time_hours

----------------------------------------------------------------------------
(* RepoStatsCounter: batches over the configured repositories *)

\* configManager.getRepositories(), in the order of the configuration.
Repositories == <<"A", "B">>

\* Values of specificRepo: none (null), a text only repository B's id or
\* name contains, a text both contain, a text neither contains.
SpecificRepos == {NULL_REPO, "B", "-", "x"}

\* repo.id.includes(specificRepo) || repo.name.includes(specificRepo)
Includes(repositoryId, specificRepo) ==
    CASE specificRepo = "-" -> TRUE
      [] specificRepo = "x" -> FALSE
      [] OTHER -> repositoryId = specificRepo

\* reposToProcess: every configured repository when specificRepo is null or
\* empty, else the configured repositories matching it.
reposToProcess(specificRepo) ==
    IF specificRepo = NULL_REPO THEN Repositories
    ELSE SelectSeq(Repositories, LAMBDA r : Includes(r, specificRepo))

\* The lists of at most two elements of S.
UpToTwo(S) ==
    {<<>>} \cup {<<x>> : x \in S} \cup {<<x, y>> : x \in S, y \in S}

\* What provider.getDeployments may deliver for a repository, as
\* countDeployments hands it to insertDeployment: a release whose commit is
\* known or not.
FetchedDeployments(repositoryId) ==
    UpToTwo([repository_id : {repositoryId},
             deployment_id : {DeploymentKeys[1]},
             deployment_date : {Utc(HoursPerDay + 1)},
             commit_sha : {"c1", NULL_SHA}])

\* What provider.getPullRequests may deliver for a repository: merged pull
\* requests; first_commit_at is the first commit's time or, when the
\* commits could not be read, the pull request's creation time.
FetchedPullRequests(repositoryId) ==
    UpToTwo([repository_id : {repositoryId}, pr_number : {1},
             created_at_pr : {Utc(1)},
             merged_at : {Utc(HoursPerDay)},
             first_commit_at : {Utc(0), Utc(1)},
             head_sha : {"c1"}, merge_sha : {NULL_SHA},
             is_merged : {1}])

\* A batch starts: the loop over reposToProcess is about to begin.
StartBatch(op, days, specificRepo) ==
    /\ pc = "idle"
    /\ batch.outcome # "running"
    /\ batch.n < MaxBatches
    /\ batch' = [op |-> op, days |-> days, specificRepo |-> specificRepo,
                 repos |-> reposToProcess(specificRepo),
                 events |-> <<>>, failed |-> {}, outcome |-> "running",
                 n |-> batch.n + 1, shown |-> <<>>]
    /\ pass' = NoPass
    /\ call' = NULL
    /\ UNCHANGED <<deployments, pull_requests, lead_time_metrics,
                   sqlite_sequence, pc>>

\* The batch once the repository in turn has events still to store and
\* repos still wait; countDeployments and collectPullRequestData return
\* when both are used up.
BatchAfter(repos, events, failed) ==
    [batch EXCEPT !.repos = repos, !.events = events, !.failed = failed,
                  !.outcome = IF repos = <<>> /\ events = <<>>
                              THEN "resolved" ELSE "running"]

\* countDeployments(days)
CountDeployments == StartBatch("countDeployments", 0, NULL_REPO)

\* countDeployments, the next repository: provider.getDeployments delivers
\* its list, or throws into the catch block of the repository's try.
FetchDeployments ==
    /\ batch.op = "countDeployments"
    /\ batch.outcome = "running"
    /\ batch.events = <<>>
    /\ batch.repos # <<>>
    /\ \/ \E fetched \in FetchedDeployments(Head(batch.repos)) :
             batch' = BatchAfter(Tail(batch.repos), fetched, batch.failed)
       \/ batch' = BatchAfter(Tail(batch.repos), <<>>,
                              batch.failed \cup {Head(batch.repos)})
    /\ UNCHANGED <<deployments, pull_requests, lead_time_metrics,
                   sqlite_sequence, pc, pass, call>>

\* countDeployments, the next fetched deployment: insertDeployment stores
\* it, or fails into the catch block of the deployment's try.
StoreDeployment ==
    /\ batch.op = "countDeployments"
    /\ batch.outcome = "running"
    /\ batch.events # <<>>
    /\ \/ /\ insertDeployment(Head(batch.events))
          /\ batch' = BatchAfter(batch.repos, Tail(batch.events),
                                 batch.failed)
       \/ /\ UNCHANGED <<deployments, sqlite_sequence>>
          /\ batch' = BatchAfter(batch.repos, Tail(batch.events),
                                 batch.failed
                                    \cup {Head(batch.events).repository_id})
    /\ UNCHANGED <<pull_requests, lead_time_metrics, pc, pass, call>>

\* collectPullRequestData(days)
CollectPullRequestData ==
    StartBatch("collectPullRequestData", 0, NULL_REPO)

\* collectPullRequestData, the next repository: provider.getPullRequests
\* delivers its list, or throws into the catch block of the repository's try.
FetchPullRequests ==
    /\ batch.op = "collectPullRequestData"
    /\ batch.outcome = "running"
    /\ batch.events = <<>>
    /\ batch.repos # <<>>
    /\ \/ \E fetched \in FetchedPullRequests(Head(batch.repos)) :
             batch' = BatchAfter(Tail(batch.repos), fetched, batch.failed)
       \/ batch' = BatchAfter(Tail(batch.repos), <<>>,
                              batch.failed \cup {Head(batch.repos)})
    /\ UNCHANGED <<deployments, pull_requests, lead_time_metrics,
                   sqlite_sequence, pc, pass, call>>

\* collectPullRequestData, the next fetched pull request: insertPullRequest
\* stores it, or fails into the catch block of the pull request's try.
StorePullRequest ==
    /\ batch.op = "collectPullRequestData"
    /\ batch.outcome = "running"
    /\ batch.events # <<>>
    /\ \/ /\ insertPullRequest(Head(batch.events))
          /\ batch' = BatchAfter(batch.repos, Tail(batch.events),
                                 batch.failed)
       \/ /\ UNCHANGED <<pull_requests, sqlite_sequence>>
          /\ batch' = BatchAfter(batch.repos, Tail(batch.events),
                                 batch.failed
                                    \cup {Head(batch.events).repository_id})
    /\ UNCHANGED <<deployments, lead_time_metrics, pc, pass, call>>

\* calculateAndDisplayLeadTime(days)
CalculateAndDisplayLeadTime(days, specificRepo) ==
    StartBatch("calculateAndDisplayLeadTime", days, specificRepo)

\* calculateAndDisplayLeadTime, the next repository: "await
\* calculateLeadTime(repo.id, days)" stands in the loop without a try, so a
\* rejected call rejects calculateAndDisplayLeadTime there and then.
CalculateRepository ==
    /\ batch.op = "calculateAndDisplayLeadTime"
    /\ batch.outcome = "running"
    /\ batch.repos # <<>>
    /\ calculateLeadTime(Head(batch.repos), batch.days)
    /\ Cardinality(lead_time_metrics) + Len(pass'.pending) <= MaxMetricRows
    /\ batch' = IF pass'.outcome = "rejected"
                THEN [batch EXCEPT
                        !.repos = Tail(@),
                        !.failed = @ \cup {Head(batch.repos)},
                        !.outcome = "rejected"]
                ELSE [batch EXCEPT !.repos = Tail(@)]

\* The loop with calculateLeadTime called but not awaited: every call has
\* been made.
loopFinished_unawaited == batch.repos = <<>>

\* "for (const repo of reposToProcess) { await calculateLeadTime(...) }" has
\* finished: every call has been made and the last one has resolved.
loopFinished == batch.repos = <<>> /\ pc = "idle"

\* repositoryFilter of displayLeadTimeStats: the id of the first configured
\* repository matching specificRepo; null without specificRepo or match.
repositoryFilter(specificRepo) ==
    LET matched == SelectSeq(Repositories,
                             LAMBDA r : Includes(r, specificRepo))
    IN  IF specificRepo # NULL_REPO /\ matched # <<>>
        THEN Head(matched) ELSE NULL_REPO

\* The repository and the number of changes of each row a table shows.  (The
\* hours of this specification's metrics are whole hours, so the table's
\* averages and percentiles are not kept.)
ShownRows(data) ==
    [i \in 1..Len(data) |->
        [repository_id |-> data[i].repository_id,
         pr_count |-> data[i].pr_count]]

\* calculateAndDisplayLeadTime after its loop: displayLeadTimeStats(days,
\* specificRepo), which reads the store and prints the statistics.
DisplayAfterCalculation ==
    /\ batch.op = "calculateAndDisplayLeadTime"
    /\ batch.outcome = "running"
    /\ loopFinished
    /\ \E data \in displayLeadTimeStats(repositoryFilter(batch.specificRepo),
                                        batch.days, NowWall) :
          batch' = [batch EXCEPT !.outcome = "resolved",
                                 !.shown = ShownRows(data)]
    /\ UNCHANGED <<deployments, pull_requests, lead_time_metrics,
                   sqlite_sequence, pc, pass, call>>

NextBatch ==
    \/ CountDeployments
    \/ FetchDeployments
    \/ StoreDeployment
    \/ CollectPullRequestData
    \/ FetchPullRequests
    \/ StorePullRequest
    \/ \E days \in WindowDays, specificRepo \in SpecificRepos :
          CalculateAndDisplayLeadTime(days, specificRepo)
    \/ CalculateRepository
    \/ DisplayAfterCalculation
    \/ ProcessPullRequest

SpecBatch == Init /\ [][NextBatch]_vars

----------------------------------------------------------------------------
(* Properties of the batches and of the inserts *)

\* C17: a batch over several repositories ends only when every repository
\* has had its turn: a failure in one repository's turn does not keep the
\* remaining repositories from theirs.
C17_FailureLeavesOtherRepositories ==
    (batch.op # "none" /\ batch.outcome # "running") => batch.repos = <<>>

\* The stored events: the rows without their row ids.
DeploymentEvents(rows) ==
    {[repository_id |-> d.repository_id,
      deployment_id |-> d.deployment_id,
      deployment_date |-> d.deployment_date,
      commit_sha |-> d.commit_sha] : d \in rows}

PullRequestEvents(rows) ==
    {[repository_id |-> q.repository_id,
      pr_number |-> q.pr_number,
      created_at_pr |-> q.created_at_pr,
      merged_at |-> q.merged_at,
      first_commit_at |-> q.first_commit_at,
      head_sha |-> q.head_sha,
      merge_sha |-> q.merge_sha,
      is_merged |-> q.is_merged] : q \in rows}

----------------------------------------------------------------------------
(* Independence of repositories *)

\* findDeploymentForPR worked out on the given rows only.
MatchOver(rows, pr) ==
    LET after == {d \in rows : SqlGE(d.deployment_date, pr.merged_at)}
        exact == {d \in after : \/ SqlEqSha(d.commit_sha, pr.head_sha)
                                \/ SqlEqSha(d.commit_sha, pr.merge_sha)}
    IN  IF exact # {} THEN FirstByDate(exact)
        ELSE IF after # {} THEN FirstByDate(after)
        ELSE {NULL}

\* C20: what findDeploymentForPR and calculatePRLeadTime return for a
\* change of repository A is determined by A's rows alone: it is what they
\* return on the store without the rows of other repositories.
C20_RepositoriesIndependent ==
    LET own == {d \in deployments : d.repository_id = "A"}
    IN  Computed
           => /\ call.repositoryId = "A"
              /\ findDeploymentForPR("A", call.pr) = MatchOver(own, call.pr)
              /\ call.deployment \in MatchOver(own, call.pr)
              /\ call.metric
                    = calculatePRLeadTime("A", call.pr, call.deployment)
              /\ call.deployment # NULL
                    => call.deployment.repository_id = "A"

\* A change of A whose head commit was deployed, after its merge, by
\* repository B before any deployment of A.
C20_Witness ==
    /\ Computed
    /\ call.deployment # NULL
    /\ \E d \in deployments :
          /\ d.repository_id = "B"
          /\ SqlEqSha(d.commit_sha, call.pr.head_sha)
          /\ SqlGE(d.deployment_date, call.pr.merged_at)
          /\ d.deployment_date # call.deployment.deployment_date
          /\ TextLE(d.deployment_date, call.deployment.deployment_date)

----------------------------------------------------------------------------
(* Properties of the store over time *)

\* The (repository_id, deployment_id) pairs of a deployments table.
DeploymentKeySet(rows) ==
    {<<d.repository_id, d.deployment_id>> : d \in rows}

\* C21: no step of a batch (fetching and storing deployments or pull
\* requests, computing metrics, reporting) removes a (repository_id,
\* deployment_id) pair from the deployments table.
C21_DeploymentKeysNeverShrink ==
    [][DeploymentKeySet(deployments)
          \subseteq DeploymentKeySet(deployments')]_vars

\* Two repositories have a deployment each, one of them stored again since
\* the other was stored, and a later batch has run on that table.
C21_Witness ==
    /\ Cardinality(DeploymentKeySet(deployments)) = 2
    /\ sqlite_sequence.deployments > 2
    /\ batch.op # "countDeployments"
    /\ batch.outcome = "resolved"

\* The step is displayLeadTimeStats of a calculateAndDisplayLeadTime batch:
\* its getLeadTimeStats and getLeadTimePercentiles reads.
DisplayStep ==
    /\ batch.op = "calculateAndDisplayLeadTime"
    /\ batch.outcome = "running"
    /\ batch'.outcome = "resolved"

\* C22: in calculateAndDisplayLeadTime the aggregation reads come after the
\* computation and the writes of every selected repository: when they begin
\* calculateLeadTime has been called for every selected repository and no
\* pass is under way, and no metric is written between them and the end of
\* the batch.
C22_ReadsFollowAllWrites ==
    /\ [][DisplayStep
            => /\ batch.repos = <<>>
               /\ pc = "idle"
               /\ pass.outcome # "running"
               /\ lead_time_metrics' = lead_time_metrics]_vars
    /\ [][lead_time_metrics' # lead_time_metrics
            => /\ batch.op = "calculateAndDisplayLeadTime"
               /\ batch.outcome = "running"
               /\ batch'.outcome = "running"]_vars

\* A batch over both repositories has written a metric for each and then
\* shown the statistics.
C22_Witness ==
    /\ batch.op = "calculateAndDisplayLeadTime"
    /\ batch.outcome = "resolved"
    /\ batch.specificRepo = NULL_REPO
    /\ \A r \in Repos : \E m \in lead_time_metrics : m.repository_id = r
    /\ Len(batch.shown) = 2

\* The repositories a batch's filter selects.
Selected(specificRepo) ==
    {reposToProcess(specificRepo)[i] :
        i \in 1..Len(reposToProcess(specificRepo))}

\* C30: the statistics calculateAndDisplayLeadTime shows are those of the
\* repositories its filter selected for the computation, as far as they
\* have metrics in the window: of all of them, and of no other repository.
C30_ShownAreTheSelectedRepositories ==
    (batch.op = "calculateAndDisplayLeadTime" /\ batch.outcome = "resolved")
       => {batch.shown[i].repository_id : i \in 1..Len(batch.shown)}
             = {r \in Selected(batch.specificRepo) :
                   MetricsSince(r, batch.days, NowWall) # {}}

----------------------------------------------------------------------------
(* Properties of the insights and the percentiles *)

C24_RecommendationsByCategoryAlone ==
    (Called("generateInsights") /\ "category" \in DOMAIN call.insights)
       => /\ Len(call.insights.recommendations) > 0
          /\ \A r \in Repos, days \in WindowDays, now \in Nows :
                \A other \in generateInsights(r, days, now) :
                   (/\ "category" \in DOMAIN other
                    /\ other.category = call.insights.category)
                      => other.recommendations
                            = call.insights.recommendations

\* Two repositories in the same category whose averages, percentiles and
\* numbers of changes differ.
C24_Witness ==
    /\ Called("generateInsights")
    /\ "category" \in DOMAIN call.insights
    /\ \E r \in Repos \ {call.repositoryId} :
          \E other \in generateInsights(r, call.days, call.now) :
             /\ "category" \in DOMAIN other
             /\ other.category = call.insights.category
             /\ other.avgLeadTimeDays # call.insights.avgLeadTimeDays
             /\ other.percentiles # call.insights.percentiles
             /\ Cardinality(MetricsSince(r, call.days, call.now))
                   # Cardinality(MetricsSince(call.repositoryId, call.days,
                                              call.now))

----------------------------------------------------------------------------
(* Absent commit hashes *)

\* C28: an absent commit hash makes no exact match.  A returned deployment
\* without commit_sha is the first row of the fallback query, returned
\* because no deployment the query considers carries a hash of the change;
\* and for a change without head and merge commit the returned deployment
\* is always the first row of the fallback query.
C28_AbsentHashNeverMatchesExactly ==
    (Computed /\ call.deployment # NULL)
       => LET fallback == FallbackRows(call.repositoryId, call.pr)
              hashes == {call.pr.head_sha, call.pr.merge_sha} \ {NULL_SHA}
          IN  /\ call.deployment.commit_sha = NULL_SHA
                    => /\ call.deployment \in FirstByDate(fallback)
                       /\ \A d \in fallback : d.commit_sha \notin hashes
              /\ hashes = {}
                    => call.deployment \in FirstByDate(fallback)

\* A change without head and merge commit, and a deployment without
\* commit_sha that follows the merge but is not the first to do so: the
\* first one, which has a commit_sha, is returned.
C28_Witness ==
    /\ Computed
    /\ call.pr.head_sha = NULL_SHA
    /\ call.pr.merge_sha = NULL_SHA
    /\ call.deployment # NULL
    /\ call.deployment.commit_sha # NULL_SHA
    /\ \E d \in FallbackRows(call.repositoryId, call.pr) :
          /\ d.commit_sha = NULL_SHA
          /\ d \notin FirstByDate(FallbackRows(call.repositoryId, call.pr))

----------------------------------------------------------------------------
(* calculateLeadTime run again and again on one repository *)

\* One merged pull request of repository A with all its timestamps.
RepeatPullRequests ==
    {p \in PullRequestInputs :
        /\ p.repository_id = "A"
        /\ p.pr_number = 1
        /\ p.merged_at # NULL
        /\ p.first_commit_at # NULL}

\* leadTimeCalculator.calculateLeadTime(repositoryId, days), called on a
\* store that holds the metrics of earlier calls.
RecalculateLeadTime(repositoryId, days) ==
    /\ calculateLeadTime(repositoryId, days)
    /\ Cardinality(lead_time_metrics) <= MaxRowsBeforePass
    /\ UNCHANGED batch

NextRepeat ==
    \/ \E pr \in RepeatPullRequests : InsertPullRequest(pr)
    \/ \E days \in WindowDays : RecalculateLeadTime("A", days)
    \/ ProcessPullRequest

SpecRepeat == Init /\ [][NextRepeat]_vars

\* C25: the list of a pass names each change at most once, whatever metrics
\* earlier passes left, so a pass writes at most one metric per change.
C25_EachChangeOncePerPass ==
    /\ \A i, j \in DOMAIN pass.pending :
          i # j => pass.pending[i].pr.id # pass.pending[j].pr.id
    /\ \A i, j \in DOMAIN pass.leadTimeMetrics :
          i # j => pass.leadTimeMetrics[i].pr_id
                      # pass.leadTimeMetrics[j].pr_id

----------------------------------------------------------------------------
(* Properties that relate the tables *)

\* C26: every lead_time_metrics row refers to rows that exist: its pr_id is
\* the id of a pull_requests row of its repository and its deployment_id,
\* when there is one, the id of a deployments row of its repository.
C26_MetricsReferToStoredRows ==
    \A m \in lead_time_metrics :
        /\ \E p \in pull_requests :
              p.id = m.pr_id /\ p.repository_id = m.repository_id
        /\ m.deployment_id # NULL_ID
              => \E d \in deployments :
                    d.id = m.deployment_id
                       /\ d.repository_id = m.repository_id

\* C27: when a pass with window d has returned, every metric it wrote is
\* among the rows getLeadTimeStats aggregates for the same repository and
\* the same window, and the repository's summary counts at least the
\* metrics of the pass.
C27_PassMetricsAreAggregated ==
    (pc = "idle" /\ pass.outcome = "resolved")
       => /\ \A i \in DOMAIN pass.leadTimeMetrics :
                \E m \in MetricsSince(pass.repositoryId, pass.days, NowWall) :
                   /\ m.pr_id = pass.leadTimeMetrics[i].pr_id
                   /\ m.first_commit_at
                         = pass.leadTimeMetrics[i].first_commit_at
          /\ pass.leadTimeMetrics # <<>>
                => \A stats \in getLeadTimeStats(pass.repositoryId,
                                                 pass.days, NowWall) :
                      /\ Len(stats) = 1
                      /\ stats[1].pr_count >= Len(pass.leadTimeMetrics)

====
